---- MODULE Spec2Model ----
(***************************************************************************)
(* Live Sentiment Dashboard (src/app.py): the text normalizer, the         *)
(* two-bucket sentiment classifier, the session store and the views the    *)
(* script derives from it.                                                 *)
(*                                                                         *)
(* Texts are TLA+ strings; a character is a string of length one.          *)
(* Times are whole seconds counted from midnight of the day the session    *)
(* starts on.  Polarities are integers, in twelfths.                        *)
(***************************************************************************)
EXTENDS Integers, Sequences, FiniteSets, TLC

VARIABLES
    data,               \* st.session_state.data: the rows, in arrival order
    last_update,        \* st.session_state.last_update
    running,            \* st.session_state.running
    ss_keyword,         \* st.session_state.keyword
    keyword,            \* value of the "Enter a keyword/brand" text input
    refresh_rate,       \* value of the "Refresh every X seconds" slider
    tweets_per_refresh, \* value of the "Tweets per refresh" slider
    now,                \* the wall clock read by datetime.now()
    pc,                 \* position of the script: "waiting", "main", "display"
    screen,             \* what the last completed script run rendered
    scorer,             \* the sentiment scorer plugged in for this session
    hist,               \* history: rows appended since the store was last empty,
                        \* by label; whether and when a polling cycle last ran
    input,              \* normalizer harness: the text under test
    once,               \* normalizer harness: preprocess_text(input)
    twice,              \* normalizer harness: preprocess_text(once)
    phase               \* normalizer harness: number of applications done

vars == <<data, last_update, running, ss_keyword, keyword, refresh_rate,
          tweets_per_refresh, now, pc, screen, scorer, hist, input, once, twice,
          phase>>

sessionVars == <<data, last_update, running, ss_keyword, keyword, refresh_rate,
                 tweets_per_refresh, now, pc, screen, scorer, hist>>

normVars == <<input, once, twice, phase>>

(***************************************************************************)
(* Characters and character classes of the regular expressions.            *)
(***************************************************************************)
Min(a, b) == IF a <= b THEN a ELSE b
Max(a, b) == IF a >= b THEN a ELSE b

Char(s, i) == IF 1 <= i /\ i <= Len(s) THEN SubSeq(s, i, i) ELSE ""

UpperLetters == "ABCDEFGHIJKLMNOPQRSTUVWXYZ"
LowerLetters == "abcdefghijklmnopqrstuvwxyz"
DigitChars == "0123456789"

CharsOf(s) == {Char(s, i) : i \in 1..Len(s)}

Upper == CharsOf(UpperLetters)
Lower == CharsOf(LowerLetters)
Digits == CharsOf(DigitChars)

\* [A-Za-z0-9_]
WordChars == Upper \cup Lower \cup Digits \cup {"_"}
\* [A-Za-z0-9./]
UrlChars == Upper \cup Lower \cup Digits \cup {".", "/"}
\* \s (and what str.strip() strips), within ASCII
Whitespace == {" ", "\t", "\n", "\r", "\f"}
\* the complement of [^A-Za-z\s]
KeptChars == Upper \cup Lower \cup Whitespace

\* the first position at or after i whose character is not in class
RunEnd(s, i, class) ==
    IF \A j \in i..Len(s) : Char(s, j) \in class THEN Max(i, Len(s) + 1)
    ELSE CHOOSE j \in i..Len(s) :
            /\ Char(s, j) \notin class
            /\ \A k \in i..(j - 1) : Char(s, k) \in class

StartsWithAt(s, i, prefix) ==
    /\ i + Len(prefix) - 1 <= Len(s)
    /\ SubSeq(s, i, i + Len(prefix) - 1) = prefix

\* Where a match of the pattern that starts at position i ends (the position
\* after its last character), or i when the pattern does not match at i.
\* Every pattern of preprocess_text matches at least one character.
MatchEnd(pattern, s, i) ==
    CASE pattern = "mention" ->
            LET e == RunEnd(s, i + 1, WordChars)
            IN  IF Char(s, i) = "@" /\ e > i + 1 THEN e ELSE i
      [] pattern = "hashtag" ->
            LET e == RunEnd(s, i + 1, WordChars)
            IN  IF Char(s, i) = "#" /\ e > i + 1 THEN e ELSE i
      [] pattern = "url" ->
            IF ~StartsWithAt(s, i, "http") THEN i
            ELSE LET j == IF Char(s, i + 4) = "s" THEN i + 5 ELSE i + 4
                     e == RunEnd(s, j + 3, UrlChars)
                 IN  IF StartsWithAt(s, j, "://") /\ e > j + 3 THEN e ELSE i
      [] pattern = "special" ->
            IF i <= Len(s) /\ Char(s, i) \notin KeptChars THEN i + 1 ELSE i

\* the leftmost position at or after i where the pattern matches, 0 if none
NextMatch(pattern, s, i) ==
    IF \A p \in i..Len(s) : MatchEnd(pattern, s, p) = p THEN 0
    ELSE CHOOSE p \in i..Len(s) :
            /\ MatchEnd(pattern, s, p) > p
            /\ \A q \in i..(p - 1) : MatchEnd(pattern, s, q) = q

\* re.sub(pattern, '', s): the text is scanned from the left; the leftmost
\* match, taken as long as it goes, is dropped and the scan resumes behind it
RECURSIVE ReSubFrom(_, _, _)
RECURSIVE ReSubAt(_, _, _, _)
ReSubAt(pattern, s, i, m) ==
    IF m = 0 THEN SubSeq(s, i, Len(s))
    ELSE SubSeq(s, i, m - 1) \o ReSubFrom(pattern, s, MatchEnd(pattern, s, m))

\* the scan from position i on: m is the leftmost match at or after i
ReSubFrom(pattern, s, i) == ReSubAt(pattern, s, i, NextMatch(pattern, s, i))

ReSub(pattern, s) == ReSubFrom(pattern, s, 1)

LowerChar(c) ==
    IF c \in Upper
    THEN Char(LowerLetters, CHOOSE k \in 1..Len(UpperLetters) : Char(UpperLetters, k) = c)
    ELSE c

\* the characters lo..hi of s, each lower-cased
RECURSIVE LowerRange(_, _, _)
LowerRange(s, lo, hi) ==
    IF lo > hi THEN ""
    ELSE IF lo = hi THEN LowerChar(Char(s, lo))
    ELSE LET mid == (lo + hi) \div 2
         IN  LowerRange(s, lo, mid) \o LowerRange(s, mid + 1, hi)

\* str.lower()
lower(s) == LowerRange(s, 1, Len(s))

\* str.strip(): from the first to the last character that is not whitespace
strip(s) ==
    LET kept == {i \in 1..Len(s) : Char(s, i) \notin Whitespace}
    IN  IF kept = {} THEN ""
        ELSE SubSeq(s, CHOOSE b \in kept : \A i \in kept : b <= i,
                       CHOOSE e \in kept : \A i \in kept : e >= i)

\* a slip in the order of the steps: trimming before the special characters go
preprocess_text_strip_early(text) ==
    ReSub("special", strip(lower(ReSub("url", ReSub("hashtag", ReSub("mention", text))))))

\* a slip in the last step: only the case is folded, nothing is trimmed
preprocess_text_no_strip(text) ==
    lower(ReSub("special", ReSub("url", ReSub("hashtag", ReSub("mention", text)))))

preprocess_text(text) ==
    LET t1 == ReSub("mention", text)
        t2 == ReSub("hashtag", t1)
        t3 == ReSub("url", t2)
        t4 == ReSub("special", t3)
    IN  strip(lower(t4))

(***************************************************************************)
(* Normalizer harness: preprocess_text applied once and twice to texts     *)
(* assembled from the fragments its patterns react to.                     *)
(***************************************************************************)
MaxFragments == 3

Fragments == {"@", "#", "http", "https", "://", "a", "B", "1", "_", " ", "!", ".", "/"}

ExampleText == "I LOVE @brand! Check http://x.co #great"

RECURSIVE FragmentTexts(_)
FragmentTexts(n) ==
    IF n = 0 THEN {""}
    ELSE LET shorter == FragmentTexts(n - 1)
         IN  shorter \cup {t \o f : t \in shorter, f \in Fragments}

Inputs == FragmentTexts(MaxFragments) \cup {ExampleText}

NormInit ==
    /\ input \in Inputs
    /\ once = ""
    /\ twice = ""
    /\ phase = 0

Normalize ==
    /\ phase = 0
    /\ once' = preprocess_text(input)
    /\ phase' = 1
    /\ UNCHANGED <<input, twice, sessionVars>>

Renormalize ==
    /\ phase = 1
    /\ twice' = preprocess_text(once)
    /\ phase' = 2
    /\ UNCHANGED <<input, once, sessionVars>>

(***************************************************************************)
(* The sentiment classifier.                                               *)
(***************************************************************************)
\* Polarities the scorer can return, in twelfths: 0, 1, -1/2, 1/2, -1.
\* Multiples of 6, so that the mean of one, two or three of them is exact.
PolarityValues == <<0, 12, -6, 6, -12>>

MaxOffset == 1

\* TextBlob(cleaned_text).sentiment.polarity is a library call: a fixed
\* function of the cleaned text with values in [-1.0, 1.0].  A scorer here is
\* one such function, picked when the session starts.
Scorers == 0..MaxOffset

Polarity(sc, cleaned_text) ==
    PolarityValues[((Len(cleaned_text) + sc) % Len(PolarityValues)) + 1]

\* a slip in the threshold: zero polarity counted as Positive
Classify_zero_positive(polarity) ==
    IF polarity >= 0 THEN <<"Positive", "smile">> ELSE <<"Negative", "angry">>

\* lines 41-46: the label and its emoji (named here for the two faces)
Classify(polarity) ==
    IF polarity > 0 THEN <<"Positive", "smile">> ELSE <<"Negative", "angry">>

\* lines 41-48: the triple returned for a polarity
Labelled(polarity) == <<polarity, Classify(polarity)[1], Classify(polarity)[2]>>

\* lines 33-48: returns <<polarity, sentiment, sentiment_emoji>>
analyze_sentiment(sc, text) == Labelled(Polarity(sc, preprocess_text(text)))

(***************************************************************************)
(* The simulated tweet source.                                             *)
(***************************************************************************)
sample_texts(kw) == <<
    "I love my new " \o kw \o ", it's absolutely amazing! Best purchase ever!",
    kw \o " is the worst product I've ever used. Complete waste of money.",
    kw \o " has completely transformed my daily routine for the better!",
    "I'm so disappointed with " \o kw \o ". It broke after just one week.",
    "Highly recommend " \o kw \o " to everyone! Excellent quality and service.",
    "Avoid " \o kw \o " at all costs. Terrible customer support experience.",
    "Absolutely in love with my " \o kw \o "! Worth every penny!",
    kw \o " stopped working after 2 days. Very frustrated!",
    kw \o " has exceeded all my expectations. Fantastic product!",
    "Regret buying " \o kw \o ". Poor build quality and performance.",
    kw \o " is a game-changer! Can't imagine life without it now.",
    "Never buying " \o kw \o " again. Complete garbage.",
    kw \o " customer service is outstanding! They went above and beyond.",
    kw \o " is a scam. Don't fall for their marketing.",
    "Best decision I ever made was purchasing " \o kw \o "!" >>

\* a slip in the canned list: only the first nine samples are there
get_fake_tweets_short_list(kw, n) ==
    SubSeq(sample_texts(kw), 1, Min(n, 9))

\* sample_texts[:n]
get_fake_tweets(kw, n) ==
    SubSeq(sample_texts(kw), 1, Min(n, Len(sample_texts(kw))))

(***************************************************************************)
(* The controls of the sidebar.                                            *)
(***************************************************************************)
DefaultKeyword == "iPhone"
Keywords == {DefaultKeyword, "@Tesla"}

MinRefresh == 5
MaxRefresh == 60
DefaultRefresh == 10
RefreshRates == {r \in MinRefresh..MaxRefresh : r = MinRefresh \/ r = DefaultRefresh}

MinTweets == 1
MaxTweets == 10
DefaultTweets == 3
TweetCounts ==
    {n \in MinTweets..MaxTweets : n = DefaultTweets \/ n = MaxTweets}

(***************************************************************************)
(* The views of the main area.                                             *)
(***************************************************************************)
SecondsPerDay == 86400

TwoDigits(n) == Char(DigitChars, (n \div 10) + 1) \o Char(DigitChars, (n % 10) + 1)

\* strftime("%H:%M:%S")
FormatTime(t) ==
    LET s == t % SecondsPerDay
    IN  TwoDigits(s \div 3600) \o ":" \o TwoDigits((s \div 60) % 60) \o ":" \o TwoDigits(s % 60)

\* code points of the characters a formatted time is made of
CodePoint(c) ==
    IF c = ":" THEN 58
    ELSE 47 + (CHOOSE k \in 1..Len(DigitChars) : Char(DigitChars, k) = c)

\* a < b for two strings, as Python compares them
RECURSIVE StrLessFrom(_, _, _)
StrLessFrom(a, b, i) ==
    IF i > Len(b) THEN FALSE
    ELSE IF i > Len(a) THEN TRUE
    ELSE IF Char(a, i) = Char(b, i) THEN StrLessFrom(a, b, i + 1)
    ELSE CodePoint(Char(a, i)) < CodePoint(Char(b, i))

StrLess(a, b) == StrLessFrom(a, b, 1)

\* a slip in the second filter: every row that is not Positive, whatever it is
Counts_by_length(d) ==
    <<Cardinality({i \in 1..Len(d) : d[i].sentiment = "Positive"}),
      Len(d),
      Len(d)>>

\* lines 146-148: <<positive, negative, total>>
Counts(d) ==
    <<Cardinality({i \in 1..Len(d) : d[i].sentiment = "Positive"}),
      Cardinality({i \in 1..Len(d) : d[i].sentiment = "Negative"}),
      Len(d)>>

RollingWindow == 3
MinPeriods == 1
FeedRows == 10

\* Series.rolling(window, min_periods).mean() as the sliding window computes
\* it: each row is added to a running sum, the row that leaves the window is
\* taken out of it, and the mean is the sum over the number of rows held.
\* "none" stands for NaN (fewer rows than min_periods).
RECURSIVE RollFrom(_, _, _, _, _, _)
RollFrom(scores, window, minp, i, sum_x, nobs) ==
    IF i > Len(scores) THEN <<>>
    ELSE LET leaving == i > window
             sum1 == sum_x + scores[i] - (IF leaving THEN scores[i - window] ELSE 0)
             nobs1 == nobs + 1 - (IF leaving THEN 1 ELSE 0)
             mean == IF nobs1 >= minp THEN sum1 \div nobs1 ELSE "none"
         IN  <<mean>> \o RollFrom(scores, window, minp, i + 1, sum1, nobs1)

\* a slip in the window: the row that leaves is taken out one row late
rolling_avg_wide(d) ==
    RollFrom([i \in 1..Len(d) |-> d[i].sentiment_score], RollingWindow + 1, MinPeriods, 1, 0, 0)

\* line 166: chart_data["rolling_avg"]
rolling_avg(d) ==
    RollFrom([i \in 1..Len(d) |-> d[i].sentiment_score], RollingWindow, MinPeriods, 1, 0, 0)

\* DataFrame.tail(n)
tail(d, n) == SubSeq(d, Max(1, Len(d) - n + 1), Len(d))

Reverse(q) == [i \in 1..Len(q) |-> q[Len(q) + 1 - i]]

\* a < b on the time column: datetimes compare as instants, the formatted
\* column (dtype object) as strings
TimeLess(dtype, a, b) ==
    IF dtype = "datetime" THEN a.time < b.time ELSE StrLess(a.time, b.time)

\* row r put into q, which is ascending, behind the rows it does not precede
\* (a stable insertion)
RECURSIVE InsertAscending(_, _, _)
InsertAscending(q, r, dtype) ==
    IF q = <<>> THEN <<r>>
    ELSE IF TimeLess(dtype, r, Head(q)) THEN <<r>> \o q
    ELSE <<Head(q)>> \o InsertAscending(Tail(q), r, dtype)

RECURSIVE SortAscending(_, _)
SortAscending(q, dtype) ==
    IF q = <<>> THEN <<>>
    ELSE InsertAscending(SortAscending(SubSeq(q, 1, Len(q) - 1), dtype), q[Len(q)], dtype)

\* sort_values("time", ascending=False): the rows are reversed, sorted
\* ascending and reversed again
SortDescending(q, dtype) == Reverse(SortAscending(Reverse(q), dtype))

\* line 221: the ten newest rows, sorted on the time column
live_feed(d) == SortDescending(tail(d, FeedRows), "datetime")

\* lines 245-246: the table's columns, the time column formatted; row is the
\* index label the frame keeps
display_df(d) ==
    [i \in 1..Len(d) |->
        [time |-> FormatTime(d[i].time), text |-> d[i].text,
         sentiment |-> d[i].sentiment, sentiment_score |-> d[i].sentiment_score,
         row |-> i]]

\* line 253: the table sorted on its (formatted) time column
raw_table(d) == SortDescending(display_df(d), "object")

\* line 260: to_csv(index=False), one line per row of the store after the header
csv_rows(d) ==
    [i \in 1..Len(d) |->
        <<d[i].time, d[i].text, d[i].sentiment_score, d[i].sentiment, d[i].sentiment_emoji>>]

\* lines 145-269: what the main area shows
Render(d) ==
    IF d = <<>> THEN [kind |-> "info"]
    ELSE [kind |-> "dashboard",
          total |-> Counts(d)[3],
          positive |-> Counts(d)[1],
          negative |-> Counts(d)[2],
          rolling_avg |-> rolling_avg(d),
          feed |-> live_feed(d),
          table |-> raw_table(d),
          csv |-> csv_rows(d)]

(***************************************************************************)
(* The session.                                                            *)
(***************************************************************************)
StartBeforeMidnight == 6
MaxElapsed == 10

SessionStart == SecondsPerDay - StartBeforeMidnight

NoHistory == [positive |-> 0, negative |-> 0, fetched |-> FALSE, last_fetch |-> 0]

\* line 78, line 103: pd.DataFrame(columns=[...]), a frame with no rows
EmptyFrame == <<>>

\* lines 77-84, and the widgets' defaults; the first script run is under way
Init ==
    /\ data = EmptyFrame
    /\ now = SessionStart
    /\ last_update = now
    /\ running = FALSE
    /\ ss_keyword = DefaultKeyword
    /\ keyword = DefaultKeyword
    /\ refresh_rate = DefaultRefresh
    /\ tweets_per_refresh = DefaultTweets
    /\ pc = "main"
    /\ screen = [kind |-> "blank"]
    /\ scorer \in Scorers
    /\ hist = NoHistory
    /\ input = ""
    /\ once = ""
    /\ twice = ""
    /\ phase = 0

\* time passes, wherever the script is
Tick ==
    /\ now - SessionStart < MaxElapsed
    /\ now' = now + 1
    /\ UNCHANGED <<data, last_update, running, ss_keyword, keyword, refresh_rate,
                   tweets_per_refresh, pc, screen, scorer, hist, normVars>>

\* line 91: the text input is edited; the script runs again with no button
\* pressed and comes to the main section
ChangeKeyword ==
    /\ pc = "waiting"
    /\ \E k \in Keywords \ {keyword} : keyword' = k
    /\ pc' = "main"
    /\ UNCHANGED <<data, last_update, running, ss_keyword, refresh_rate,
                   tweets_per_refresh, now, screen, scorer, hist, normVars>>

\* line 92: the refresh slider is moved
ChangeRefreshRate ==
    /\ pc = "waiting"
    /\ \E r \in RefreshRates \ {refresh_rate} : refresh_rate' = r
    /\ pc' = "main"
    /\ UNCHANGED <<data, last_update, running, ss_keyword, keyword,
                   tweets_per_refresh, now, screen, scorer, hist, normVars>>

\* line 93: the tweets slider is moved
ChangeTweetsPerRefresh ==
    /\ pc = "waiting"
    /\ \E n \in TweetCounts \ {tweets_per_refresh} : tweets_per_refresh' = n
    /\ pc' = "main"
    /\ UNCHANGED <<data, last_update, running, ss_keyword, keyword,
                   refresh_rate, now, screen, scorer, hist, normVars>>

\* lines 97-100: "Start Monitoring" / "Pause Monitoring" pressed; st.rerun()
\* starts the script again, which comes to the main section
StartPause ==
    /\ pc = "waiting"
    /\ running' = ~running
    /\ ss_keyword' = keyword
    /\ pc' = "main"
    /\ UNCHANGED <<data, last_update, keyword, refresh_rate, tweets_per_refresh,
                   now, screen, scorer, hist, normVars>>

\* a slip in the handler: the button reruns the script and resets nothing
ClearData_keeps_rows ==
    /\ pc = "waiting"
    /\ pc' = "main"
    /\ hist' = [hist EXCEPT !.positive = 0, !.negative = 0]
    /\ UNCHANGED <<data, last_update, running, ss_keyword, keyword, refresh_rate,
                   tweets_per_refresh, now, screen, scorer, normVars>>

\* lines 102-104: "Clear Data" pressed; st.rerun()
ClearData ==
    /\ pc = "waiting"
    /\ data' = EmptyFrame
    /\ pc' = "main"
    /\ hist' = [hist EXCEPT !.positive = 0, !.negative = 0]
    /\ UNCHANGED <<last_update, running, ss_keyword, keyword, refresh_rate,
                   tweets_per_refresh, now, screen, scorer, normVars>>

\* line 119
time_since_update == now - last_update

\* a slip in the guard: the elapsed time is not looked at
FetchDue_any_time == running

\* line 118, line 121
FetchDue == running /\ time_since_update >= refresh_rate

\* lines 126-137: one row per fetched tweet
Row(t, tweet, result) ==
    [time |-> t, text |-> tweet, sentiment_score |-> result[1],
     sentiment |-> result[2], sentiment_emoji |-> result[3]]

NewRows(tweets) ==
    [i \in 1..Len(tweets) |-> Row(now, tweets[i], analyze_sentiment(scorer, tweets[i]))]

\* a slip in the order of the frames: the new rows put in front
concat_in_front(d, rows) == rows \o d

\* line 138: pd.concat([data, df_new], ignore_index=True)
concat(d, rows) == d \o rows

\* line 138, and the history of what was appended
Appended(df_new) ==
    /\ data' = concat(data, df_new)
    /\ hist' = [positive |-> hist.positive
                    + Cardinality({i \in 1..Len(df_new) : df_new[i].sentiment = "Positive"}),
                negative |-> hist.negative
                    + Cardinality({i \in 1..Len(df_new) : df_new[i].sentiment = "Negative"}),
                fetched |-> TRUE,
                last_fetch |-> now]

\* lines 118-142: the polling cycle; st.rerun() starts the script again
FetchCycle ==
    /\ pc = "main"
    /\ FetchDue
    /\ Appended(NewRows(get_fake_tweets(keyword, tweets_per_refresh)))
    /\ last_update' = now
    /\ pc' = "main"
    /\ UNCHANGED <<running, ss_keyword, keyword, refresh_rate, tweets_per_refresh,
                   now, screen, scorer, normVars>>

\* the main section with no update due: on to the display
SkipFetch ==
    /\ pc = "main"
    /\ ~FetchDue
    /\ pc' = "display"
    /\ UNCHANGED <<data, last_update, running, ss_keyword, keyword, refresh_rate,
                   tweets_per_refresh, now, screen, scorer, hist, normVars>>

\* lines 145-269: the main area is rendered and the script ends
Display ==
    /\ pc = "display"
    /\ screen' = Render(data)
    /\ pc' = "waiting"
    /\ UNCHANGED <<data, last_update, running, ss_keyword, keyword, refresh_rate,
                   tweets_per_refresh, now, scorer, hist, normVars>>

Next ==
    \/ Tick
    \/ ChangeKeyword
    \/ ChangeRefreshRate
    \/ ChangeTweetsPerRefresh
    \/ StartPause
    \/ ClearData
    \/ FetchCycle
    \/ SkipFetch
    \/ Display

Spec == Init /\ [][Next]_vars

(***************************************************************************)
(* The normalizer on its own: the session is left as it starts.            *)
(***************************************************************************)
NormSpecInit ==
    /\ NormInit
    /\ data = EmptyFrame
    /\ now = SessionStart
    /\ last_update = now
    /\ running = FALSE
    /\ ss_keyword = DefaultKeyword
    /\ keyword = DefaultKeyword
    /\ refresh_rate = DefaultRefresh
    /\ tweets_per_refresh = DefaultTweets
    /\ pc = "waiting"
    /\ screen = [kind |-> "blank"]
    /\ scorer = 0
    /\ hist = NoHistory

NormNext ==
    \/ Normalize
    \/ Renormalize

NormSpec == NormSpecInit /\ [][NormNext]_vars

(***************************************************************************)
(* Properties of the session store.                                        *)
(***************************************************************************)
Labels == {"Positive", "Negative"}

\* C1: every stored row is labelled Positive or Negative, and Positive exactly
\* when its polarity is above zero; a row of polarity zero is Negative.
C1_LabelIffPositivePolarity ==
    \A i \in 1..Len(data) :
        /\ data[i].sentiment \in Labels
        /\ data[i].sentiment = "Positive" <=> data[i].sentiment_score > 0

\* the store holds a row of polarity zero, one above and one below zero
C1_Witness ==
    /\ \E i \in 1..Len(data) : data[i].sentiment_score = 0 /\ data[i].sentiment = "Negative"
    /\ \E i \in 1..Len(data) : data[i].sentiment_score > 0
    /\ \E i \in 1..Len(data) : data[i].sentiment_score < 0

\* C2: with k Positive and m Negative rows appended since the store was last
\* empty, the counts are (k, m, k + m), on the store and on the metrics shown;
\* positive + negative = total; rows with the same text each count.
C2_CountsMatchAppends ==
    /\ Counts(data) = <<hist.positive, hist.negative, hist.positive + hist.negative>>
    /\ Counts(data)[1] + Counts(data)[2] = Counts(data)[3]
    /\ (pc = "waiting" /\ data # EmptyFrame) =>
            /\ screen.kind = "dashboard"
            /\ screen.positive = hist.positive
            /\ screen.negative = hist.negative
            /\ screen.total = hist.positive + hist.negative

\* the metrics are on the screen for a store with rows of both labels, two of
\* the rows carrying the same text
C2_Witness ==
    /\ pc = "waiting"
    /\ hist.positive >= 1
    /\ hist.negative >= 1
    /\ \E i, j \in 1..Len(data) : i < j /\ data[i].text = data[j].text

\* C3: the store is empty when the session starts, and Clear Data leaves it
\* empty whatever it held, the counts then being (0, 0, 0); the first cycle
\* after that leaves exactly its own rows.
C3_EmptyAtStartAndAfterClear ==
    /\ data = <<>>
    /\ [][/\ ClearData => (data' = <<>> /\ Counts(data') = <<0, 0, 0>>)
          /\ (FetchCycle /\ data = <<>>) => Len(data') = tweets_per_refresh]_vars

\* the store is empty again after a polling cycle has filled it
C3_Witness == pc = "main" /\ data = <<>> /\ hist.fetched

IsPrefix(p, q) == Len(p) <= Len(q) /\ SubSeq(q, 1, Len(p)) = p

\* C4: only the polling cycle and Clear Data change the store; the cycle keeps
\* the rows held, in their places, and puts the new rows behind them in the
\* order fetched; a step that toggles monitoring, changes a control, renders
\* the main area or only lets time pass leaves the store as it is.
C4_OnlyAppendOrClear ==
    [][/\ data' # data => (FetchCycle \/ ClearData)
       /\ FetchCycle =>
            /\ IsPrefix(data, data')
            /\ \A i \in 1..tweets_per_refresh :
                    data'[Len(data) + i].text = sample_texts(keyword)[i]
       /\ (running' # running \/ keyword' # keyword \/ refresh_rate' # refresh_rate
            \/ tweets_per_refresh' # tweets_per_refresh \/ screen' # screen
            \/ now' # now) => data' = data]_vars

\* the store holds the rows of two polling cycles
C4_Witness ==
    /\ data # <<>>
    /\ data[1].time < data[Len(data)].time

\* the polarity of the i-th row the screen was rendered from
ShownScore(i) == screen.csv[i][3]

\* C5: the trend's rolling average is a simple moving average over three rows
\* in arrival order: the first row's polarity at the first row, the mean of
\* the first two at the second, and the mean of the row and the two before it
\* from the third row on.
C5_RollingAverageIsThreePointMean ==
    screen.kind = "dashboard" =>
        /\ Len(screen.rolling_avg) = Len(screen.csv)
        /\ screen.rolling_avg[1] = ShownScore(1)
        /\ Len(screen.csv) >= 2 =>
                2 * screen.rolling_avg[2] = ShownScore(1) + ShownScore(2)
        /\ \A i \in 3..Len(screen.csv) :
                3 * screen.rolling_avg[i]
                    = ShownScore(i - 2) + ShownScore(i - 1) + ShownScore(i)

\* a trend over at least four rows whose fourth row has left the first behind:
\* the average there differs from the row and from the mean of all four
C5_Witness ==
    /\ screen.kind = "dashboard"
    /\ Len(screen.csv) >= 4
    /\ screen.rolling_avg[4] # ShownScore(4)
    /\ 4 * screen.rolling_avg[4]
            # ShownScore(1) + ShownScore(2) + ShownScore(3) + ShownScore(4)

\* C8: a polling cycle appends exactly tweets_per_refresh rows, for every value
\* the slider allows (1..10), each row carrying the text of one fetched post
\* as fetched, not as normalized.
C8_CycleAppendsRequestedRows ==
    /\ \A kw \in Keywords : \A n \in MinTweets..MaxTweets : Len(get_fake_tweets(kw, n)) = n
    /\ [][FetchCycle =>
            /\ tweets_per_refresh \in MinTweets..MaxTweets
            /\ Len(data') = Len(data) + tweets_per_refresh
            /\ \A i \in 1..tweets_per_refresh :
                    /\ data'[Len(data) + i].text = sample_texts(keyword)[i]
                    /\ data'[Len(data) + i].text # preprocess_text(sample_texts(keyword)[i])]_vars

\* one cycle with the slider at its maximum has filled the store
C8_Witness ==
    /\ Len(data) = MaxTweets
    /\ hist.fetched
    /\ data[1].time = data[MaxTweets].time

\* C9: the store grows and last_update moves only in a script run that finds
\* monitoring running and at least refresh_rate seconds gone since
\* last_update; the cycle sets last_update to the time it ran at, so the rerun
\* it asks for finds no update due, and a cycle comes no sooner than the
\* refresh interval then in force after the cycle before it.
C9_CycleOnlyWhenDue ==
    [][(Len(data') > Len(data) \/ last_update' # last_update) =>
            /\ running
            /\ now - last_update >= refresh_rate
            /\ last_update' = now
            /\ ~FetchDue'
            /\ hist.fetched => now - hist.last_fetch >= refresh_rate]_vars

\* a second polling cycle has run
C9_Witness ==
    /\ hist.fetched
    /\ data # <<>>
    /\ data[1].time < hist.last_fetch
    /\ last_update = hist.last_fetch

\* the time the i-th row of the rendered table was stored at
ShownTime(i) == screen.csv[screen.table[i].row][1]

\* C10: the raw-data table shows the rows newest first, for every store, while
\* the store and the exported rows stay in arrival order.
C10_RawTableNewestFirst ==
    screen.kind = "dashboard" =>
        /\ \A i, j \in 1..Len(screen.table) : i < j => ShownTime(i) >= ShownTime(j)
        /\ \A i, j \in 1..Len(screen.csv) : i < j => screen.csv[i][1] <= screen.csv[j][1]

(***************************************************************************)
(* Properties of the normalizer.                                           *)
(***************************************************************************)
\* C6: the normalizer is idempotent: normalizing a normalized text changes
\* nothing.
C6_NormalizerIdempotent == phase = 2 => twice = once

\* a text the normalizer changed, to something not empty, normalized again
C6_Witness == phase = 2 /\ once # input /\ once # ""

\* C7 as stated: the example text normalizes to "i love  check  ", two spaces
\* trailing.
C7_ExampleKeepsTrailingSpaces ==
    (phase >= 1 /\ input = ExampleText) => once = "i love  check  "

\* C7, amended: the example text normalizes to "i love  check": the mention,
\* the hashtag and the URL removed, the punctuation stripped, the letters
\* lower-cased, two spaces left between the words and none at the end.
C7_ExampleTrimmed ==
    (phase >= 1 /\ input = ExampleText) => once = "i love  check"

\* the example text has been normalized
C7_Witness == phase >= 1 /\ input = ExampleText /\ once # ""

====
